---- MODULE Spec2Model ----
(***************************************************************************)
(* Model of the rendering service in server.js: the shared browser engine  *)
(* handle (getBrowser), the Page Renderer (renderPngBuffer), the Process   *)
(* Runner (run) and the two request handlers (/render/png, /render/video), *)
(* then the option normalizers and the ffmpeg command line as functions of *)
(* the values a JSON body can hold.                                        *)
(*                                                                         *)
(* Node runs one handler segment at a time: the code between two awaits is *)
(* one atomic step.  Every action below is such a segment: it starts where *)
(* an awaited promise settles (or an event is delivered) and runs to the   *)
(* next await, including a throw travelling to the handler's catch.        *)
(***************************************************************************)
EXTENDS Integers, Sequences, FiniteSets, TLC

\* ---------------------------------------------------------------- bounds
NumReq == 2          \* request slots that may be in flight together
MaxData == 1         \* 'data' events delivered per stream of a child
MaxNum == 12         \* largest magnitude of a number's digits in an input
MaxFrac == 1         \* most digits after the decimal point in a number input
MaxStrLen == 2       \* longest string input

\* ------------------------------------------------------ program constants
TimeoutMs == 180000         \* run("ffmpeg", ..., { timeoutMs: 180000 })
DefaultTimeoutMs == 120000  \* run(cmd, args, { timeoutMs = 120000 } = {})

Requests == 1..NumReq

\* path.join(DATA_ROOT, "templates")
TEMPLATES_ROOT == <<"/data", "templates">>

\* The templates directory: the only template with an index.html is "card".
ExistingTemplates == {"card"}

\* Request bodies the handlers are driven with.  template "" stands for a
\* missing (falsy) template; backgroundVideo <<>> for a missing one; a URL is
\* its scheme prefix followed by the rest.
Templates == {"", "missing", "card"}
BgVideos == {<<>>, <<"http://", "/bg.mp4">>, <<"file://", "/bg.mp4">>}
Bodies == [template : Templates, bgVideo : BgVideos]

NoBody == [template |-> "", bgVideo |-> <<>>]

VARIABLES
    browserPromise,  \* "null" | "pending" | "fulfilled" | "rejected"
    launches,        \* number of chromium.launch calls made so far
    endpoint,        \* per request: "none" | "png" | "video"
    body,            \* per request: the request body
    pc,              \* per request: the await the handler is suspended at
    context,         \* per request: "undefined" | "open" | "closed"
    page,            \* per request: "undefined" | "open" | "closed"
    ready,           \* per request: window.__RENDER_READY__ of its page
    steps,           \* per request: renderer/handler steps performed, in order
    tmpDir,          \* per request: "none" | "exists" | "removed"
    cleanup,         \* per request: "none" | "ok" | "failed" (rmSync result)
    response,        \* per request: the HTTP responses sent, in order
    child,           \* per request: "none" | "running" | "errored" | "closed"
    timer,           \* per request: [state: "none" | "armed" | "fired" | "cleared", ms]
    kills,           \* per request: SIGKILLs sent to its child
    stdout,          \* per request: run's stdout accumulator
    stderr,          \* per request: run's stderr accumulator
    promise,         \* per request: the promise run returned
    events,          \* per request: timer/error/close events handled, in order
    delivered,       \* per request: run outcomes observed by the awaiting caller
    exitCode,        \* per request: "none" or the code its 'close' event carried
    tmpName,         \* per request: 0 or the name mkdtempSync returned
    fileId,          \* per request: "" or its crypto.randomBytes(6) identifier
    files,           \* the files inside the temporary directories
    input,           \* the value a pure function is applied to, or NoValue
    output           \* what it returned, or NoValue

reqVars == <<endpoint, body, pc, steps, response>>
renderVars == <<context, page, ready>>
browserVars == <<browserPromise, launches>>
tmpVars == <<tmpDir, cleanup>>
runVars == <<child, timer, kills, stdout, stderr, promise, events, delivered,
            exitCode>>
fsVars == <<tmpName, fileId, files>>
pureVars == <<input, output>>
vars == <<browserPromise, launches, endpoint, body, pc, context, page, ready,
          steps, tmpDir, cleanup, response, child, timer, kills, stdout,
          stderr, promise, events, delivered, exitCode, tmpName, fileId,
          files, input, output>>

\* ------------------------------------------------------------- values
\* A promise that is still pending, and the three ways run settles it.
Pending == [state |-> "pending", kind |-> "", ms |-> 0, code |-> "",
            out |-> <<>>, err |-> <<>>, text |-> <<>>]
NoPromise == [Pending EXCEPT !.state = "none"]

\* resolve({ stdout, stderr })
Resolved(so, se) == [Pending EXCEPT !.state = "fulfilled", !.kind = "ok",
                                    !.out = so, !.err = se]
\* reject(new Error(`${cmd} timed out after ${timeoutMs}ms`))
TimedOut(ms) == [Pending EXCEPT !.state = "rejected", !.kind = "timeout",
                                !.ms = ms]
\* reject(err) with the spawn-level error
SpawnError == [Pending EXCEPT !.state = "rejected", !.kind = "error"]
\* Faulty variant: `${stdout || stderr}`.
ExitFailedStdoutFirst(code, so, se) ==
    [Pending EXCEPT !.state = "rejected", !.kind = "exit", !.code = code,
                    !.text = IF so # <<>> THEN so ELSE se]

\* reject(new Error(`${cmd} failed (code ${code}). ${stderr || stdout}`))
ExitFailed(code, so, se) ==
    [Pending EXCEPT !.state = "rejected", !.kind = "exit", !.code = code,
                    !.text = IF se # <<>> THEN se ELSE so]

\* A thrown error: its code property and its message.
Err(code, message) == [code |-> code, message |-> message]
\* An HTTP response.
Resp(status, error, message) ==
    [status |-> status, error |-> error, message |-> message]

\* The state of the process once server.js has been loaded.
ServerInit ==
    /\ browserPromise = "null"
    /\ launches = 0
    /\ endpoint = [r \in Requests |-> "none"]
    /\ body = [r \in Requests |-> NoBody]
    /\ pc = [r \in Requests |-> "idle"]
    /\ context = [r \in Requests |-> "undefined"]
    /\ page = [r \in Requests |-> "undefined"]
    /\ ready = [r \in Requests |-> FALSE]
    /\ steps = [r \in Requests |-> <<>>]
    /\ tmpDir = [r \in Requests |-> "none"]
    /\ cleanup = [r \in Requests |-> "none"]
    /\ response = [r \in Requests |-> <<>>]
    /\ child = [r \in Requests |-> "none"]
    /\ timer = [r \in Requests |-> [state |-> "none", ms |-> 0]]
    /\ kills = [r \in Requests |-> 0]
    /\ stdout = [r \in Requests |-> <<>>]
    /\ stderr = [r \in Requests |-> <<>>]
    /\ promise = [r \in Requests |-> NoPromise]
    /\ events = [r \in Requests |-> <<>>]
    /\ delivered = [r \in Requests |-> <<>>]
    /\ exitCode = [r \in Requests |-> "none"]
    /\ tmpName = [r \in Requests |-> 0]
    /\ fileId = [r \in Requests |-> ""]
    /\ files = {}

\* No pure function is being evaluated.
NoValue == [kind |-> "none"]

Init ==
    /\ ServerInit
    /\ input = NoValue
    /\ output = NoValue

\* ------------------------------------------------------------- helpers
Send(r, resp) == response' = [response EXCEPT ![r] = Append(@, resp)]
Did(r, names) == steps' = [steps EXCEPT ![r] = @ \o names]
Goto(r, at) == pc' = [pc EXCEPT ![r] = at]

\* path.join(path.join(TEMPLATES_ROOT, template), "index.html")
htmlPath(template) == TEMPLATES_ROOT \o <<template, "index.html">>

\* Faulty variant: a catch block that answers 500 whatever the error's code.
PngCatchAlways500(e) == Resp(500, "RENDER_FAILED", e.message)

\* The catch block of /render/png.
PngCatch(e) ==
    Resp(IF e.code = "TEMPLATE_NOT_FOUND" THEN 404 ELSE 500,
         "RENDER_FAILED", e.message)

\* The catch block of /render/video.
VideoCatch(e) == Resp(500, "RENDER_VIDEO_FAILED", e.message)

\* Faulty variant: the cleanup is not on the path of a thrown error.
ThrowSkipsFinally(r, ep, e) ==
    /\ Send(r, IF ep = "png" THEN PngCatch(e) ELSE VideoCatch(e))
    /\ Goto(r, "done")

\* An error thrown inside a handler's try block reaches its catch block, which
\* answers; /render/video then still has its finally block to run.
Throw(r, ep, e) ==
    IF ep = "png"
    THEN Send(r, PngCatch(e)) /\ Goto(r, "done")
    ELSE Send(r, VideoCatch(e)) /\ Goto(r, "finally")

\* Faulty variant: a failed launch is forgotten and the next caller launches
\* again.
getBrowserRelaunches ==
    IF browserPromise \in {"null", "rejected"}
    THEN browserPromise' = "pending" /\ launches' = launches + 1
    ELSE UNCHANGED <<browserPromise, launches>>

\* Faulty variant: the handle is taken as set only once the launch is over
\* (browser = await chromium.launch() behind an if (!browser) check).
getBrowserChecksEngine ==
    IF browserPromise \in {"null", "pending"}
    THEN browserPromise' = "pending" /\ launches' = launches + 1
    ELSE UNCHANGED <<browserPromise, launches>>

\* getBrowser(): the first caller starts the launch, everyone gets the promise.
getBrowser ==
    IF browserPromise = "null"
    THEN browserPromise' = "pending" /\ launches' = launches + 1
    ELSE UNCHANGED <<browserPromise, launches>>

\* renderPngBuffer up to its first await: the existence check, then getBrowser.
renderPngBuffer(r, ep, template) ==
    IF template \notin ExistingTemplates
    THEN /\ Throw(r, ep, Err("TEMPLATE_NOT_FOUND",
                             <<"Template not found at ">> \o htmlPath(template)))
         /\ Did(r, <<"existsSync">>)
         /\ UNCHANGED browserVars
    ELSE /\ getBrowser
         /\ Goto(r, "getBrowser")
         /\ Did(r, <<"existsSync", "getBrowser">>)
         /\ UNCHANGED response

\* A request arrives and is given the lowest free slot.
Arrives(r) == pc[r] = "idle" /\ \A q \in Requests : q < r => pc[q] # "idle"

\* POST /render/png, up to its first await.
PngStart(r, b) ==
    /\ Arrives(r)
    /\ endpoint' = [endpoint EXCEPT ![r] = "png"]
    /\ body' = [body EXCEPT ![r] = b]
    /\ IF b.template = ""
       THEN /\ Send(r, Resp(400, "template is required", <<>>))
            /\ Goto(r, "done")
            /\ UNCHANGED <<steps, browserVars>>
       ELSE renderPngBuffer(r, "png", b.template)
    /\ UNCHANGED <<renderVars, tmpVars, fsVars, pureVars, runVars>>

\* String(bgVideo).startsWith("file://")
startsWithFile(bgVideo) == Len(bgVideo) > 0 /\ bgVideo[1] = "file://"

\* The directory names mkdtempSync draws its random suffix from, and the
\* values crypto.randomBytes(6).toString("hex") can take.
DirNames == 1..NumReq
Ids == {"3f9a", "c07e"}

\* A file inside a temporary directory, and who wrote it.
Path(dir, name) == [dir |-> dir, name |-> name]
File(path, owner) == [path |-> path, owner |-> owner]

\* path.join(tmpDir, `overlay-${id}.png`) and path.join(tmpDir, `out-${id}.mp4`)
overlayPath(r) == Path(tmpName[r], <<"overlay-", fileId[r], ".png">>)
outPath(r) == Path(tmpName[r], <<"out-", fileId[r], ".mp4">>)

\* Writing a file creates it or replaces what was at that path.
Written(path, r) == {f \in files : f.path # path} \cup {File(path, r)}

\* Faulty variant: one fixed working directory instead of a fresh one.
FixedName == {1}

\* fs.mkdtempSync(path.join(os.tmpdir(), "render-")) creates a directory whose
\* random name no request being handled (or its child process) is using.
FreeNames == DirNames \ {tmpName[q] : q \in Requests}

\* The free names are interchangeable, so one of them stands for any; and one
\* identifier stands for all where no two requests' paths are compared.
SomeName == CHOOSE n \in FreeNames : \A m \in FreeNames : n <= m
SomeId == CHOOSE id \in Ids : TRUE

\* POST /render/video, up to its first await.  The temporary directory is
\* made before the try block: when mkdtempSync throws, the handler's promise
\* rejects and neither its catch nor its finally block runs.
VideoStart(r, b, n, id) ==
    /\ Arrives(r)
    /\ endpoint' = [endpoint EXCEPT ![r] = "video"]
    /\ body' = [body EXCEPT ![r] = b]
    /\ \/ /\ Goto(r, "threw")
          /\ UNCHANGED <<steps, response, browserVars, tmpDir, tmpName, fileId>>
       \/ /\ tmpDir' = [tmpDir EXCEPT ![r] = "exists"]
          /\ n \in FreeNames
          /\ id \in Ids
          /\ tmpName' = [tmpName EXCEPT ![r] = n]
          /\ fileId' = [fileId EXCEPT ![r] = id]
          /\ IF b.template = ""
             THEN /\ Send(r, Resp(400, "template is required", <<>>))
                  /\ Goto(r, "finally")
                  /\ UNCHANGED <<steps, browserVars>>
             ELSE IF b.bgVideo = <<>>
             THEN /\ Send(r, Resp(400, "assets.backgroundVideo is required for /render/video", <<>>))
                  /\ Goto(r, "finally")
                  /\ UNCHANGED <<steps, browserVars>>
             ELSE IF ~startsWithFile(b.bgVideo)
             THEN /\ Send(r, Resp(400, "assets.backgroundVideo must be a file:// URL for /render/video", <<>>))
                  /\ Goto(r, "finally")
                  /\ UNCHANGED <<steps, browserVars>>
             ELSE renderPngBuffer(r, "video", b.template)
    /\ UNCHANGED <<renderVars, cleanup, runVars, files, pureVars>>


\* chromium.launch settles: the engine is up, or the launch failed.
BrowserLaunchSettles ==
    /\ browserPromise = "pending"
    /\ \E ok \in BOOLEAN :
          browserPromise' = IF ok THEN "fulfilled" ELSE "rejected"
    /\ UNCHANGED <<launches, reqVars, renderVars, tmpVars, fsVars, pureVars,
                   runVars>>

\* An awaited renderer call rejected: renderPngBuffer throws at that await (it
\* has no cleanup path of its own) and the handler's catch block answers.
Rejects(r, what) ==
    /\ Throw(r, endpoint[r], Err("", <<what, " failed">>))
    /\ UNCHANGED <<steps, renderVars>>

\* await getBrowser(): resumes with the engine and calls browser.newContext.
AwaitGetBrowser(r) ==
    /\ pc[r] = "getBrowser"
    /\ \/ /\ browserPromise = "fulfilled"
          /\ Goto(r, "newContext")
          /\ UNCHANGED <<steps, response, renderVars>>
       \/ /\ browserPromise = "rejected"
          /\ Rejects(r, "launch")
    /\ UNCHANGED <<endpoint, body, browserVars, tmpVars, fsVars, pureVars,
                   runVars>>

\* context = await browser.newContext(...); then context.newPage() is called.
AwaitNewContext(r) ==
    /\ pc[r] = "newContext"
    /\ \/ /\ context' = [context EXCEPT ![r] = "open"]
          /\ Goto(r, "newPage")
          /\ Did(r, <<"newContext">>)
          /\ UNCHANGED <<response, page, ready>>
       \/ Rejects(r, "newContext")
    /\ UNCHANGED <<endpoint, body, browserVars, tmpVars, fsVars, pureVars,
                   runVars>>

\* page = await context.newPage(); then page.addInitScript(...) is called.
AwaitNewPage(r) ==
    /\ pc[r] = "newPage"
    /\ \/ /\ page' = [page EXCEPT ![r] = "open"]
          /\ Goto(r, "addInitScript")
          /\ Did(r, <<"newPage">>)
          /\ UNCHANGED <<response, context, ready>>
       \/ Rejects(r, "newPage")
    /\ UNCHANGED <<endpoint, body, browserVars, tmpVars, fsVars, pureVars,
                   runVars>>

\* await page.addInitScript(...); then page.goto(...) is called.
AwaitAddInitScript(r) ==
    /\ pc[r] = "addInitScript"
    /\ \/ /\ Goto(r, "goto")
          /\ Did(r, <<"addInitScript">>)
          /\ UNCHANGED <<response, renderVars>>
       \/ Rejects(r, "addInitScript")
    /\ UNCHANGED <<endpoint, body, browserVars, tmpVars, fsVars, pureVars,
                   runVars>>

\* await page.goto(...): the document is parsed, the init script has set
\* window.__RENDER_READY__ = false; then addStyleTag (hideBg) or evaluate.
AwaitGoto(r) ==
    /\ pc[r] = "goto"
    /\ \/ /\ ready' = [ready EXCEPT ![r] = FALSE]
          /\ Goto(r, IF endpoint[r] = "video" THEN "addStyleTag" ELSE "evaluate")
          /\ Did(r, <<"goto">>)
          /\ UNCHANGED <<response, context, page>>
       \/ Rejects(r, "goto")
    /\ UNCHANGED <<endpoint, body, browserVars, tmpVars, fsVars, pureVars,
                   runVars>>

\* The template's own script sets window.__RENDER_READY__ = true.
TemplateReady(r) ==
    /\ pc[r] \in {"addStyleTag", "evaluate", "waitForFunction"}
    /\ ~ready[r]
    /\ ready' = [ready EXCEPT ![r] = TRUE]
    /\ UNCHANGED <<reqVars, context, page, browserVars, tmpVars, fsVars,
                   pureVars, runVars>>

\* await page.addStyleTag(...) (only when hideBg); then page.evaluate(...).
AwaitAddStyleTag(r) ==
    /\ pc[r] = "addStyleTag"
    /\ \/ /\ Goto(r, "evaluate")
          /\ Did(r, <<"addStyleTag">>)
          /\ UNCHANGED <<response, renderVars>>
       \/ Rejects(r, "addStyleTag")
    /\ UNCHANGED <<endpoint, body, browserVars, tmpVars, fsVars, pureVars,
                   runVars>>

\* await page.evaluate(fonts ready); then page.waitForFunction(...).
AwaitEvaluate(r) ==
    /\ pc[r] = "evaluate"
    /\ \/ /\ Goto(r, "waitForFunction")
          /\ Did(r, <<"evaluate">>)
          /\ UNCHANGED <<response, renderVars>>
       \/ Rejects(r, "evaluate")
    /\ UNCHANGED <<endpoint, body, browserVars, tmpVars, fsVars, pureVars,
                   runVars>>

\* Faulty variant: a fixed pause instead of waiting for the flag.
AwaitWaitForFunctionBlind(r) ==
    /\ pc[r] = "waitForFunction"
    /\ \/ /\ Goto(r, "screenshot")
          /\ Did(r, <<"waitForFunction">>)
          /\ UNCHANGED <<response, renderVars>>
       \/ /\ ~ready[r]
          /\ Rejects(r, "waitForFunction")
    /\ UNCHANGED <<endpoint, body, browserVars, tmpVars, fsVars, pureVars,
                   runVars>>

\* await page.waitForFunction(() => window.__RENDER_READY__ === true, 20000):
\* resolves once the flag is seen true, rejects on the timeout; then
\* frame.screenshot(...) is called.
AwaitWaitForFunction(r) ==
    /\ pc[r] = "waitForFunction"
    /\ \/ /\ ready[r]
          /\ Goto(r, "screenshot")
          /\ Did(r, <<"waitForFunction">>)
          /\ UNCHANGED <<response, renderVars>>
       \/ /\ ~ready[r]
          /\ Rejects(r, "waitForFunction")
    /\ UNCHANGED <<endpoint, body, browserVars, tmpVars, fsVars, pureVars,
                   runVars>>

\* png = await frame.screenshot(...); then page.close() is called.
AwaitScreenshot(r) ==
    /\ pc[r] = "screenshot"
    /\ \/ /\ Goto(r, "pageClose")
          /\ Did(r, <<"screenshot">>)
          /\ UNCHANGED <<response, renderVars>>
       \/ Rejects(r, "screenshot")
    /\ UNCHANGED <<endpoint, body, browserVars, tmpVars, fsVars, pureVars,
                   runVars>>

\* await page.close().catch(() => {}): a failure to close is swallowed; then
\* context.close() is called.
AwaitPageClose(r) ==
    /\ pc[r] = "pageClose"
    /\ \E ok \in BOOLEAN :
          page' = [page EXCEPT ![r] = IF ok THEN "closed" ELSE @]
    /\ Goto(r, "contextClose")
    /\ Did(r, <<"pageClose">>)
    /\ UNCHANGED <<endpoint, body, response, context, ready, browserVars,
                   tmpVars, fsVars, pureVars, runVars>>

\* await context.close().catch(() => {}): closing a context closes its pages.
contextClose(r, ok) ==
    /\ context' = [context EXCEPT ![r] = IF ok THEN "closed" ELSE @]
    /\ page' = [page EXCEPT ![r] = IF ok THEN "closed" ELSE @]
    /\ UNCHANGED ready

\* /render/png after renderPngBuffer returned the PNG: res.send(png).
PngRendered(r) ==
    /\ pc[r] = "contextClose"
    /\ endpoint[r] = "png"
    /\ \E ok \in BOOLEAN : contextClose(r, ok)
    /\ Send(r, Resp(200, "", <<"image/png">>))
    /\ Goto(r, "done")
    /\ Did(r, <<"contextClose", "send">>)
    /\ UNCHANGED <<endpoint, body, browserVars, tmpVars, fsVars, pureVars,
                   runVars>>


\* ------------------------------------------------------- Process Runner
\* Faulty variant: a promise whose later resolve/reject replaces the earlier outcome.
SettleOverwrites(p, outcome) == outcome

\* A promise settles once: resolve and reject on a settled promise do nothing.
Settle(p, outcome) == IF p.state = "pending" THEN outcome ELSE p

\* clearTimeout(timer): a timer that has not fired yet never fires.
clearTimeout(t) == IF t.state = "armed" THEN [t EXCEPT !.state = "cleared"] ELSE t

\* Faulty variant: run ignoring the caller's timeoutMs and arming the default.
runDefaultTimeout(r, timeoutMs) ==
    /\ child' = [child EXCEPT ![r] = "running"]
    /\ stdout' = [stdout EXCEPT ![r] = <<>>]
    /\ stderr' = [stderr EXCEPT ![r] = <<>>]
    /\ timer' = [timer EXCEPT ![r] = [state |-> "armed", ms |-> DefaultTimeoutMs]]
    /\ promise' = [promise EXCEPT ![r] = Pending]
    /\ UNCHANGED <<kills, events, delivered, exitCode>>

\* run(cmd, args, { timeoutMs }) up to returning its promise: spawn the child,
\* start the timer, register the data, error and close handlers.
run(r, timeoutMs) ==
    /\ child' = [child EXCEPT ![r] = "running"]
    /\ stdout' = [stdout EXCEPT ![r] = <<>>]
    /\ stderr' = [stderr EXCEPT ![r] = <<>>]
    /\ timer' = [timer EXCEPT ![r] = [state |-> "armed", ms |-> timeoutMs]]
    /\ promise' = [promise EXCEPT ![r] = Pending]
    /\ UNCHANGED <<kills, events, delivered, exitCode>>

\* p.stdout.on("data", (d) => (stdout += d.toString()))
StdoutData(r) ==
    /\ child[r] \in {"running", "errored"}
    /\ Len(stdout[r]) < MaxData
    /\ stdout' = [stdout EXCEPT ![r] = Append(@, "out")]
    /\ UNCHANGED <<reqVars, renderVars, browserVars, tmpVars, fsVars, pureVars, child, timer,
                   kills, stderr, promise, events, delivered, exitCode>>

\* p.stderr.on("data", (d) => (stderr += d.toString()))
StderrData(r) ==
    /\ child[r] \in {"running", "errored"}
    /\ Len(stderr[r]) < MaxData
    /\ stderr' = [stderr EXCEPT ![r] = Append(@, "err")]
    /\ UNCHANGED <<reqVars, renderVars, browserVars, tmpVars, fsVars, pureVars, child, timer,
                   kills, stdout, promise, events, delivered, exitCode>>

\* The setTimeout callback: p.kill("SIGKILL"); reject(timed out).
TimerFires(r) ==
    /\ timer[r].state = "armed"
    /\ timer' = [timer EXCEPT ![r].state = "fired"]
    /\ kills' = [kills EXCEPT ![r] = @ + 1]
    /\ promise' = [promise EXCEPT ![r] = Settle(@, TimedOut(timer[r].ms))]
    /\ events' = [events EXCEPT ![r] = Append(@, "timer")]
    /\ UNCHANGED <<reqVars, renderVars, browserVars, tmpVars, fsVars, pureVars, child, stdout,
                   stderr, delivered, exitCode>>

\* Faulty variant: an error handler that forgets clearTimeout(timer).
ChildErrorKeepsTimer(r) ==
    /\ child[r] = "running"
    /\ promise' = [promise EXCEPT ![r] = Settle(@, SpawnError)]
    /\ child' = [child EXCEPT ![r] = "errored"]
    /\ events' = [events EXCEPT ![r] = Append(@, "error")]
    /\ UNCHANGED <<reqVars, renderVars, browserVars, tmpVars, fsVars, pureVars, timer, kills,
                   stdout, stderr, delivered, exitCode>>

\* Faulty variant: an error handler that cancels the timer but leaves the
\* promise to the close handler.
ChildErrorNoReject(r) ==
    /\ child[r] = "running"
    /\ timer' = [timer EXCEPT ![r] = clearTimeout(@)]
    /\ child' = [child EXCEPT ![r] = "errored"]
    /\ events' = [events EXCEPT ![r] = Append(@, "error")]
    /\ UNCHANGED <<reqVars, renderVars, browserVars, tmpVars, fsVars, pureVars,
                   kills, stdout, stderr, delivered, exitCode, promise>>

\* p.on("error", ...): the child could not be spawned (or killed).
ChildError(r) ==
    /\ child[r] = "running"
    /\ timer' = [timer EXCEPT ![r] = clearTimeout(@)]
    /\ promise' = [promise EXCEPT ![r] = Settle(@, SpawnError)]
    /\ child' = [child EXCEPT ![r] = "errored"]
    /\ events' = [events EXCEPT ![r] = Append(@, "error")]
    /\ UNCHANGED <<reqVars, renderVars, browserVars, tmpVars, fsVars, pureVars, kills, stdout,
                   stderr, delivered, exitCode>>

\* The exit codes 'close' can report: the child's own status, null after a
\* signal killed it, a negative errno after a failed spawn.
CloseCodes(r) ==
    {"0", "1"} \cup (IF kills[r] > 0 THEN {"null"} ELSE {})
               \cup (IF child[r] = "errored" THEN {"-2"} ELSE {})

\* p.on("close", (code) => ...): the child has exited and its streams ended.
ChildClose(r, code) ==
    /\ child[r] \in {"running", "errored"}
    /\ code \in CloseCodes(r)
    /\ timer' = [timer EXCEPT ![r] = clearTimeout(@)]
    /\ promise' = [promise EXCEPT ![r] =
          Settle(@, IF code = "0" THEN Resolved(stdout[r], stderr[r])
                                  ELSE ExitFailed(code, stdout[r], stderr[r]))]
    /\ child' = [child EXCEPT ![r] = "closed"]
    /\ events' = [events EXCEPT ![r] = Append(@, "close")]
    /\ exitCode' = [exitCode EXCEPT ![r] = code]
    /\ files' = IF code = "0" /\ tmpDir[r] = "exists"
                THEN Written(outPath(r), r)      \* ffmpeg -y ... outPath
                ELSE files
    /\ UNCHANGED <<reqVars, renderVars, browserVars, tmpVars, tmpName, fileId,
                   pureVars, kills, stdout, stderr, delivered>>

\* The message of the Error run rejected with.
RunMessage(p) ==
    CASE p.kind = "timeout" -> <<"ffmpeg", " timed out after ", ToString(p.ms), "ms">>
      [] p.kind = "exit" -> <<"ffmpeg", " failed (code ", p.code, "). ">> \o p.text
      [] OTHER -> <<"spawn ffmpeg failed">>

\* -------------------------------------------------------- /render/video
\* /render/video after renderPngBuffer returned the overlay PNG: write it into
\* the temporary directory, build the ffmpeg arguments, call run.
VideoRendered(r) ==
    /\ pc[r] = "contextClose"
    /\ endpoint[r] = "video"
    /\ \E ok \in BOOLEAN : contextClose(r, ok)
    /\ \/ /\ run(r, TimeoutMs)
          /\ Goto(r, "run")
          /\ Did(r, <<"contextClose", "writeFileSync", "spawn">>)
          /\ files' = Written(overlayPath(r), r)
          /\ UNCHANGED response
       \/ /\ Throw(r, "video", Err("", <<"writeFileSync", " failed">>))
          /\ Did(r, <<"contextClose">>)
          /\ UNCHANGED <<runVars, files>>
    /\ UNCHANGED <<endpoint, body, browserVars, tmpVars, tmpName, fileId,
                   pureVars>>

\* Faulty variant: the output is read and sent whatever run's outcome was.
AwaitRunIgnoresFailure(r) ==
    /\ pc[r] = "run"
    /\ promise[r].state \in {"fulfilled", "rejected"}
    /\ delivered' = [delivered EXCEPT ![r] = Append(@, promise[r])]
    /\ \/ /\ Send(r, Resp(200, "", <<"video/mp4">>))
          /\ Goto(r, "finally")
          /\ Did(r, <<"readFileSync", "send">>)
       \/ /\ Throw(r, "video", Err("", <<"readFileSync", " failed">>))
          /\ UNCHANGED steps
    /\ UNCHANGED <<endpoint, body, renderVars, browserVars, tmpVars, fsVars,
                   pureVars, child, timer, kills, stdout, stderr, promise,
                   events, exitCode>>

\* await run("ffmpeg", ...) resumes with run's outcome: read the output file
\* and send it, or hand the rejection to the catch block.
AwaitRun(r) ==
    /\ pc[r] = "run"
    /\ promise[r].state \in {"fulfilled", "rejected"}
    /\ delivered' = [delivered EXCEPT ![r] = Append(@, promise[r])]
    /\ IF promise[r].state = "fulfilled"
       THEN \/ /\ Send(r, Resp(200, "", <<"video/mp4">>))
               /\ Goto(r, "finally")
               /\ Did(r, <<"readFileSync", "send">>)
            \/ /\ Throw(r, "video", Err("", <<"readFileSync", " failed">>))
               /\ UNCHANGED steps
       ELSE /\ Throw(r, "video", Err("", RunMessage(promise[r])))
            /\ UNCHANGED steps
    /\ UNCHANGED <<endpoint, body, renderVars, browserVars, tmpVars, fsVars,
                   pureVars, child, timer, kills, stdout, stderr, promise,
                   events, exitCode>>

\* fs.rmSync(tmpDir, { recursive: true, force: true }) inside try {} catch {}:
\* the directory is removed, or the removal failed and the error is dropped.
rmSync(r, ok) ==
    /\ tmpDir' = [tmpDir EXCEPT ![r] = IF ok THEN "removed" ELSE @]
    /\ cleanup' = [cleanup EXCEPT ![r] = IF ok THEN "ok" ELSE "failed"]
    /\ files' = IF ok THEN {f \in files : f.path.dir # tmpName[r]} ELSE files

\* The finally block of /render/video.
VideoFinally(r) ==
    /\ pc[r] = "finally"
    /\ \E ok \in BOOLEAN : rmSync(r, ok)
    /\ Goto(r, "done")
    /\ UNCHANGED <<endpoint, body, steps, response, renderVars, browserVars,
                   runVars, tmpName, fileId, pureVars>>

\* The request is over and its child process gone: its slot is free again
\* (the Render Request is discarded after the response).
Recycle(r) ==
    /\ pc[r] \in {"done", "threw"}
    /\ child[r] \in {"none", "closed"}
    /\ endpoint' = [endpoint EXCEPT ![r] = "none"]
    /\ body' = [body EXCEPT ![r] = NoBody]
    /\ pc' = [pc EXCEPT ![r] = "idle"]
    /\ context' = [context EXCEPT ![r] = "undefined"]
    /\ page' = [page EXCEPT ![r] = "undefined"]
    /\ ready' = [ready EXCEPT ![r] = FALSE]
    /\ steps' = [steps EXCEPT ![r] = <<>>]
    /\ tmpDir' = [tmpDir EXCEPT ![r] = "none"]
    /\ cleanup' = [cleanup EXCEPT ![r] = "none"]
    /\ response' = [response EXCEPT ![r] = <<>>]
    /\ child' = [child EXCEPT ![r] = "none"]
    /\ timer' = [timer EXCEPT ![r] = [state |-> "none", ms |-> 0]]
    /\ kills' = [kills EXCEPT ![r] = 0]
    /\ stdout' = [stdout EXCEPT ![r] = <<>>]
    /\ stderr' = [stderr EXCEPT ![r] = <<>>]
    /\ promise' = [promise EXCEPT ![r] = NoPromise]
    /\ events' = [events EXCEPT ![r] = <<>>]
    /\ delivered' = [delivered EXCEPT ![r] = <<>>]
    /\ exitCode' = [exitCode EXCEPT ![r] = "none"]
    /\ tmpName' = [tmpName EXCEPT ![r] = 0]
    /\ fileId' = [fileId EXCEPT ![r] = ""]
    /\ files' = {f \in files : f.path.dir # tmpName[r]}
    /\ UNCHANGED <<browserVars, pureVars>>

\* ------------------------------------------------------------ the system
\* Everything that happens once requests have arrived.
Handling ==
    \/ BrowserLaunchSettles
    \/ \E r \in Requests : AwaitGetBrowser(r)
    \/ \E r \in Requests : AwaitNewContext(r)
    \/ \E r \in Requests : AwaitNewPage(r)
    \/ \E r \in Requests : AwaitAddInitScript(r)
    \/ \E r \in Requests : AwaitGoto(r)
    \/ \E r \in Requests : TemplateReady(r)
    \/ \E r \in Requests : AwaitAddStyleTag(r)
    \/ \E r \in Requests : AwaitEvaluate(r)
    \/ \E r \in Requests : AwaitWaitForFunction(r)
    \/ \E r \in Requests : AwaitScreenshot(r)
    \/ \E r \in Requests : AwaitPageClose(r)
    \/ \E r \in Requests : PngRendered(r)
    \/ \E r \in Requests : VideoRendered(r)
    \/ \E r \in Requests : StdoutData(r)
    \/ \E r \in Requests : StderrData(r)
    \/ \E r \in Requests : TimerFires(r)
    \/ \E r \in Requests : ChildError(r)
    \/ \E r \in Requests, code \in {"0", "1", "null", "-2"} : ChildClose(r, code)
    \/ \E r \in Requests : AwaitRun(r)
    \/ \E r \in Requests : VideoFinally(r)
    \/ \E r \in Requests : Recycle(r)

\* Requests arrive at any time, also while others are being handled.
Next ==
    \/ \E r \in Requests, b \in Bodies : PngStart(r, b)
    \/ \E r \in Requests, b \in Bodies : VideoStart(r, b, SomeName, SomeId)
    \/ Handling

Spec == Init /\ [][Next]_vars

\* The service driven by a client that sends one request at a time: the next
\* request arrives when no other is being handled.
Quiet == \A q \in Requests : pc[q] = "idle"

SerialNext ==
    \/ \E r \in Requests, b \in Bodies : Quiet /\ PngStart(r, b)
    \/ \E r \in Requests, b \in Bodies :
          Quiet /\ VideoStart(r, b, SomeName, SomeId)
    \/ Handling

SpecSerial == Init /\ [][SerialNext]_vars

\* The service driven by clients of /render/png only, their requests
\* overlapping in every possible way.
PngNext ==
    \/ \E r \in Requests, b \in Bodies : b.bgVideo = <<>> /\ PngStart(r, b)
    \/ BrowserLaunchSettles
    \/ \E r \in Requests : AwaitGetBrowser(r)
    \/ \E r \in Requests : AwaitNewContext(r)
    \/ \E r \in Requests : AwaitNewPage(r)
    \/ \E r \in Requests : AwaitAddInitScript(r)
    \/ \E r \in Requests : AwaitGoto(r)
    \/ \E r \in Requests : TemplateReady(r)
    \/ \E r \in Requests : AwaitEvaluate(r)
    \/ \E r \in Requests : AwaitWaitForFunction(r)
    \/ \E r \in Requests : AwaitScreenshot(r)
    \/ \E r \in Requests : AwaitPageClose(r)
    \/ \E r \in Requests : PngRendered(r)
    \/ \E r \in Requests : Recycle(r)

SpecPng == Init /\ [][PngNext]_vars

\* The service driven by clients of /render/video whose requests overlap in
\* pairs: a request arrives while at most one other is being handled, with
\* any identifier, and ffmpeg stays silent.
InFlight == {q \in Requests : pc[q] # "idle"}

VideoPairNext ==
    \/ \E r \in Requests, b \in Bodies, id \in Ids :
          Cardinality(InFlight) <= 1 /\ VideoStart(r, b, SomeName, id)
    \/ BrowserLaunchSettles
    \/ \E r \in Requests : AwaitGetBrowser(r)
    \/ \E r \in Requests : AwaitNewContext(r)
    \/ \E r \in Requests : AwaitNewPage(r)
    \/ \E r \in Requests : AwaitAddInitScript(r)
    \/ \E r \in Requests : AwaitGoto(r)
    \/ \E r \in Requests : TemplateReady(r)
    \/ \E r \in Requests : AwaitAddStyleTag(r)
    \/ \E r \in Requests : AwaitEvaluate(r)
    \/ \E r \in Requests : AwaitWaitForFunction(r)
    \/ \E r \in Requests : AwaitScreenshot(r)
    \/ \E r \in Requests : AwaitPageClose(r)
    \/ \E r \in Requests : VideoRendered(r)
    \/ \E r \in Requests : TimerFires(r)
    \/ \E r \in Requests : ChildError(r)
    \/ \E r \in Requests, code \in {"0", "1", "null", "-2"} : ChildClose(r, code)
    \/ \E r \in Requests : AwaitRun(r)
    \/ \E r \in Requests : VideoFinally(r)
    \/ \E r \in Requests : Recycle(r)

SpecVideoPair == Init /\ [][VideoPairNext]_vars

\* ------------------------------------------- JavaScript values, conversions
\* A number: NaN, an infinity, or the finite decimal m / 10^f.  Inputs are far
\* from the magnitudes at which JavaScript prints a number with an exponent.
NaN == [class |-> "NaN", m |-> 0, f |-> 0]
Infinity == [class |-> "Infinity", m |-> 0, f |-> 0]
NegInfinity == [class |-> "-Infinity", m |-> 0, f |-> 0]
RECURSIVE Dec(_, _)
Dec(m, f) ==
    IF f > 0 /\ m % 10 = 0 THEN Dec(m \div 10, f - 1)
    ELSE [class |-> "finite", m |-> m, f |-> f]

\* Number.isFinite(n), n > 0, Number.isInteger(n)
IsFinite(n) == n.class = "finite"
IsPositive(n) == n.class = "Infinity" \/ (n.class = "finite" /\ n.m > 0)
IsInteger(n) == n.class = "finite" /\ n.f = 0

\* A value of a parsed JSON body (or a missing property): its type and, by
\* type, its boolean, number or string of characters.
JsValue(type, b, n, s) == [type |-> type, b |-> b, n |-> n, s |-> s]
Undefined == JsValue("undefined", FALSE, NaN, <<>>)
Null == JsValue("null", FALSE, NaN, <<>>)
Bool(b) == JsValue("boolean", b, NaN, <<>>)
Number(n) == JsValue("number", FALSE, n, <<>>)
String(s) == JsValue("string", FALSE, NaN, s)

\* Decimal digits.
DigitChars == <<"0", "1", "2", "3", "4", "5", "6", "7", "8", "9">>
IsDigit(c) == \E d \in DOMAIN DigitChars : DigitChars[d] = c
DigitVal(c) == (CHOOSE d \in DOMAIN DigitChars : DigitChars[d] = c) - 1
RECURSIVE NatOf(_)
NatOf(digits) ==
    IF digits = <<>> THEN 0
    ELSE NatOf(SubSeq(digits, 1, Len(digits) - 1)) * 10
            + DigitVal(digits[Len(digits)])
RECURSIVE NatToString(_)
NatToString(k) ==
    IF k < 10 THEN <<DigitChars[k + 1]>>
    ELSE NatToString(k \div 10) \o <<DigitChars[(k % 10) + 1]>>
RECURSIVE Zeros(_)
Zeros(k) == IF k <= 0 THEN <<>> ELSE <<"0">> \o Zeros(k - 1)
Abs(k) == IF k < 0 THEN -k ELSE k

\* String(n) for a number.
NumberToString(n) ==
    IF n.class # "finite"
    THEN IF n.class = "NaN" THEN <<"N", "a", "N">>
         ELSE (IF n.class = "-Infinity" THEN <<"-">> ELSE <<>>)
                 \o <<"I", "n", "f", "i", "n", "i", "t", "y">>
    ELSE LET ds == NatToString(Abs(n.m))
             padded == Zeros(n.f + 1 - Len(ds)) \o ds
             whole == SubSeq(padded, 1, Len(padded) - n.f)
             frac == SubSeq(padded, Len(padded) - n.f + 1, Len(padded))
         IN (IF n.m < 0 THEN <<"-">> ELSE <<>>) \o whole
               \o (IF n.f > 0 THEN <<".">> \o frac ELSE <<>>)

\* ToString(v), the first thing parseInt does to its argument.
JsToString(v) ==
    CASE v.type = "undefined" -> <<"u", "n", "d", "e", "f", "i", "n", "e", "d">>
      [] v.type = "null" -> <<"n", "u", "l", "l">>
      [] v.type = "boolean" -> IF v.b THEN <<"t", "r", "u", "e">>
                                      ELSE <<"f", "a", "l", "s", "e">>
      [] v.type = "number" -> NumberToString(v.n)
      [] OTHER -> v.s

\* A string with its leading sign taken off.
Unsigned(s) == IF s # <<>> /\ s[1] = "-" THEN Tail(s) ELSE s
Signed(s, k) == IF s # <<>> /\ s[1] = "-" THEN -k ELSE k

\* Number(s) for a string: the whole string has to be a decimal literal; the
\* empty string is 0.
StringToNumber(s) ==
    LET u == Unsigned(s)
        dots == {i \in DOMAIN u : u[i] = "."}
        digits == SelectSeq(u, IsDigit)
    IN IF s = <<>> THEN Dec(0, 0)
       ELSE IF \/ digits = <<>>
               \/ Cardinality(dots) > 1
               \/ \E i \in DOMAIN u : ~IsDigit(u[i]) /\ u[i] # "."
       THEN NaN
       ELSE Dec(Signed(s, NatOf(digits)),
                IF dots = {} THEN 0 ELSE Len(u) - (CHOOSE i \in dots : TRUE))

\* Number(v)
ToNumber(v) ==
    CASE v.type = "undefined" -> NaN
      [] v.type = "null" -> Dec(0, 0)
      [] v.type = "boolean" -> Dec(IF v.b THEN 1 ELSE 0, 0)
      [] v.type = "number" -> v.n
      [] OTHER -> StringToNumber(v.s)

\* parseInt(v, 10): the longest run of digits after an optional sign at the
\* start of its argument as a string; NaN when there is none.
parseInt(v) ==
    LET s == JsToString(v)
        u == Unsigned(s)
        k == CHOOSE j \in 0..Len(u) :
                /\ \A i \in 1..j : IsDigit(u[i])
                /\ j < Len(u) => ~IsDigit(u[j + 1])
    IN IF k = 0 THEN NaN ELSE Dec(Signed(s, NatOf(SubSeq(u, 1, k))), 0)

\* function normalizeDpr(v, fallback = 1)
normalizeDpr(v, fallback) ==
    LET n == ToNumber(v)
    IN IF ~IsFinite(n) \/ ~IsPositive(n) THEN fallback ELSE n

\* Faulty variant: n >= 0 instead of n > 0.
normalizeIntKeepsZero(v, fallback) ==
    LET n == parseInt(v)
    IN IF IsFinite(n) /\ n.m >= 0 THEN n ELSE fallback

\* function normalizeInt(v, fallback)
normalizeInt(v, fallback) ==
    LET n == parseInt(v)
    IN IF IsFinite(n) /\ IsPositive(n) THEN n ELSE fallback

\* function normalizeFloat(v, fallback)
normalizeFloat(v, fallback) ==
    LET n == ToNumber(v)
    IN IF IsFinite(n) /\ IsPositive(n) THEN n ELSE fallback

\* The values the normalizers are given: what a JSON body can hold in
\* options.deviceScaleFactor, options.fps and options.durationSec.
Chars == {"0", "2", "5", ".", "-", "p"}
Strings == UNION {[1..k -> Chars] : k \in 0..MaxStrLen}
Numbers ==
    {Dec(m, f) : m \in -MaxNum..MaxNum, f \in 0..MaxFrac}
        \cup {Infinity, NegInfinity}
Values ==
    {Undefined, Null, Bool(TRUE), Bool(FALSE)}
        \cup {Number(n) : n \in Numbers} \cup {String(s) : s \in Strings}
\* The fallbacks the program passes: normalizeDpr(_, 1), normalizeInt(_, 30),
\* normalizeFloat(_, 6).
Fallbacks == {Dec(1, 0), Dec(30, 0), Dec(6, 0)}
Normalizers == {"normalizeDpr", "normalizeInt", "normalizeFloat"}

\* A call of one normalizer, and its return.
Call(fn, v, fallback) ==
    [kind |-> "call", fn |-> fn, v |-> v, fallback |-> fallback]
Returned(n) == [kind |-> "returned", value |-> n]

NormInit ==
    /\ ServerInit
    /\ input \in {Call(fn, v, fb) : fn \in Normalizers, v \in Values,
                                    fb \in Fallbacks}
    /\ output = NoValue

CallNormalizeDpr ==
    /\ input.kind = "call" /\ input.fn = "normalizeDpr" /\ output = NoValue
    /\ output' = Returned(normalizeDpr(input.v, input.fallback))
    /\ UNCHANGED <<reqVars, renderVars, browserVars, tmpVars, fsVars, runVars,
                   input>>

CallNormalizeInt ==
    /\ input.kind = "call" /\ input.fn = "normalizeInt" /\ output = NoValue
    /\ output' = Returned(normalizeInt(input.v, input.fallback))
    /\ UNCHANGED <<reqVars, renderVars, browserVars, tmpVars, fsVars, runVars,
                   input>>

CallNormalizeFloat ==
    /\ input.kind = "call" /\ input.fn = "normalizeFloat" /\ output = NoValue
    /\ output' = Returned(normalizeFloat(input.v, input.fallback))
    /\ UNCHANGED <<reqVars, renderVars, browserVars, tmpVars, fsVars, runVars,
                   input>>

NormNext == CallNormalizeDpr \/ CallNormalizeInt \/ CallNormalizeFloat

\* The three normalizers applied to every input of the bounded sets.
SpecNorm == NormInit /\ [][NormNext]_vars

\* ------------------------------------------------- the ffmpeg command line
\* An argument of the command line: a string literal of the code (or a path),
\* or the string a number was converted to.
Lit(s) == [lit |-> s, chars |-> <<>>]
Text(cs) == [lit |-> "", chars |-> cs]

\* The options of a /render/video body that reach the command line.
Options(fps, durationSec, includeAudio) ==
    [kind |-> "options", fps |-> fps, durationSec |-> durationSec,
     includeAudio |-> includeAudio]
AudioValues ==
    {Undefined, Null, Bool(TRUE), Bool(FALSE), Number(Dec(1, 0)),
     Number(Dec(0, 0)), String(<<"t", "r", "u", "e">>), String(<<>>)}

\* Faulty variant: includeAudio taken as set whenever it is truthy.
includeAudioTruthy(v) ==
    CASE v.type = "boolean" -> v.b
      [] v.type = "number" -> v.n.class # "NaN" /\ v.n.m # 0
      [] v.type = "string" -> v.s # <<>>
      [] OTHER -> FALSE

\* const includeAudio = options?.includeAudio === true
includeAudio(v) == v = Bool(TRUE)

\* const ffmpegArgs = [...] with fps, durationSec and includeAudio computed
\* from the options as the handler does.
ffmpegArgs(options) ==
    LET fps == normalizeInt(options.fps, Dec(30, 0))
        durationSec == normalizeFloat(options.durationSec, Dec(6, 0))
    IN <<Lit("-y"), Lit("-stream_loop"), Lit("-1"), Lit("-i"), Lit("bgPath"),
         Lit("-i"), Lit("overlayPath"),
         Lit("-t"), Text(NumberToString(durationSec)),
         Lit("-r"), Text(NumberToString(fps)),
         Lit("-filter_complex"), Lit("filter"), Lit("-map"), Lit("[v]")>>
       \o (IF includeAudio(options.includeAudio)
           THEN <<Lit("-map"), Lit("0:a?")>> ELSE <<Lit("-an")>>)
       \o <<Lit("-c:v"), Lit("libx264"), Lit("-pix_fmt"), Lit("yuv420p"),
            Lit("-movflags"), Lit("+faststart"), Lit("outPath")>>

\* fps and durationSec are computed each from its own option: one of the two
\* ranges over all values while the other takes one of a few.
FewValues ==
    {Undefined, Number(Dec(0, 0)), Number(Dec(5, 1)), String(<<"2", "p">>)}

ArgsInit ==
    /\ ServerInit
    /\ input \in {Options(v, w, a) : v \in Values, w \in FewValues,
                                     a \in AudioValues}
               \cup {Options(w, v, a) : v \in Values, w \in FewValues,
                                        a \in AudioValues}
    /\ output = NoValue

\* The handler builds the command line for run("ffmpeg", ffmpegArgs, ...).
ComposeArgs ==
    /\ input.kind = "options" /\ output = NoValue
    /\ output' = [kind |-> "args", args |-> ffmpegArgs(input)]
    /\ UNCHANGED <<reqVars, renderVars, browserVars, tmpVars, fsVars, runVars,
                   input>>

\* The command line built for every combination of options of the bounded
\* sets.
SpecArgs == ArgsInit /\ [][ComposeArgs]_vars


\* =============================================================== claims
HasEvent(r, e) == \E i \in DOMAIN events[r] : events[r][i] = e
Settled(p) == p.state \in {"fulfilled", "rejected"}
\* renderPngBuffer has returned or thrown for request r.
RenderOver(r) == pc[r] \in {"run", "finally", "done"}
TimeoutMessage == <<"ffmpeg", " timed out after ", "180000", "ms">>

\* C1: once a renderPngBuffer call that created a rendering context has
\* completed (returned the PNG or thrown), its context is closed and its page
\* is not open.
C1_ContextClosedAfterRender ==
    \A r \in Requests :
        (RenderOver(r) /\ context[r] # "undefined")
            => (context[r] = "closed" /\ page[r] # "open")

\* C2: a run invocation gives its caller exactly one outcome: the caller
\* observes at most one, it is the promise's outcome, the first timer, error or
\* close event settles the promise, and no later event changes a settled
\* promise.
C2_ExactlyOneOutcome ==
    /\ [](\A r \in Requests :
            /\ Len(delivered[r]) <= 1
            /\ (delivered[r] # <<>> => delivered[r][1] = promise[r])
            /\ (events[r] # <<>> => Settled(promise[r])))
    /\ [][\A r \in Requests :
            (Settled(promise[r]) /\ pc'[r] # "idle") => promise'[r] = promise[r]]_vars

C2_Witness ==
    \E r \in Requests :
        /\ events[r] = <<"error", "close">>
        /\ delivered[r] = <<SpawnError>>

\* C3: when the timeout failure of run has been delivered to the caller, the
\* child's close has already been observed.
C3_TimeoutDeliveredAfterExit ==
    \A r \in Requests :
        (delivered[r] # <<>> /\ delivered[r][1].kind = "timeout")
            => child[r] = "closed"

\* C4: when the timer is the first of run's events, a SIGKILL has been sent
\* and the outcome is, and stays, the timeout failure naming the 180000 ms the
\* caller configured: never success, never the exit-code error.
C4_TimerFirstIsTimeout ==
    \A r \in Requests :
        (events[r] # <<>> /\ events[r][1] = "timer")
            => /\ kills[r] >= 1
               /\ promise[r] = TimedOut(TimeoutMs)
               /\ (delivered[r] # <<>> => delivered[r] = <<TimedOut(TimeoutMs)>>)
               /\ (pc[r] \in {"finally", "done"} =>
                     response[r] = <<Resp(500, "RENDER_VIDEO_FAILED", TimeoutMessage)>>)

C4_Witness ==
    \E r \in Requests :
        /\ events[r] = <<"timer", "close">>
        /\ pc[r] = "done"
        /\ response[r][1].status = 500

\* C5: once run has handled 'close' or 'error' its timer is no longer armed,
\* and from then on the timer never fires and no SIGKILL is sent.
C5_TimerCancelled ==
    /\ [](\A r \in Requests :
            (HasEvent(r, "close") \/ HasEvent(r, "error"))
                => timer[r].state # "armed")
    /\ [][\A r \in Requests :
            (HasEvent(r, "close") \/ HasEvent(r, "error"))
                => /\ kills'[r] <= kills[r]
                   /\ (timer'[r].state = "fired" => timer[r].state = "fired")]_vars

C5_Witness ==
    \E r \in Requests :
        /\ events[r] = <<"close">>
        /\ timer[r].state = "cleared"
        /\ kills[r] = 0
        /\ pc[r] = "done"

\* C6 (as claimed): after a /render/video request has finished, its temporary
\* directory no longer exists.
C6_TmpDirGoneWhenFinished ==
    \A r \in Requests :
        (endpoint[r] = "video" /\ pc[r] = "done") => tmpDir[r] = "removed"

\* C6 (amended): after a /render/video request has finished, with exactly one
\* response of status 200, 400 or 500, the deletion of its temporary directory
\* has been attempted; the directory no longer exists whenever the deletion
\* succeeded; the deletion, failed or not, leaves the response as it was.
C6_CleanupBestEffort ==
    /\ [](\A r \in Requests :
            (endpoint[r] = "video" /\ pc[r] = "done")
                => /\ cleanup[r] \in {"ok", "failed"}
                   /\ (cleanup[r] = "ok" => tmpDir[r] = "removed")
                   /\ Len(response[r]) = 1
                   /\ response[r][1].status \in {200, 400, 500})
    /\ [][\A r \in Requests :
            pc[r] = "finally" => response'[r] = response[r]]_vars

C6_Witness ==
    \E r \in Requests :
        /\ endpoint[r] = "video"
        /\ pc[r] = "done"
        /\ delivered[r] # <<>>
        /\ delivered[r][1].kind = "timeout"
        /\ cleanup[r] = "ok"
        /\ tmpDir[r] = "removed"

\* C7: a /render/video request whose backgroundVideo is absent or not a
\* file:// reference is answered 400, and no temporary directory is created,
\* no context opened and no process spawned for it at any point.
C7_NoTmpDirOnBadBackground ==
    \A r \in Requests :
        (endpoint[r] = "video" /\ ~startsWithFile(body[r].bgVideo))
            => /\ tmpDir[r] = "none"
               /\ context[r] = "undefined"
               /\ child[r] = "none"
               /\ (response[r] # <<>> => response[r][1].status = 400)

\* C8: a request without a template is answered 400, and when the 400 has
\* been sent nothing has been acquired for it: no temporary directory, no
\* context or page, no process, no renderer step.
C8_NoResourceOnMissingTemplate ==
    \A r \in Requests :
        (endpoint[r] # "none" /\ body[r].template = "" /\ response[r] # <<>>)
            => /\ response[r][1].status = 400
               /\ tmpDir[r] = "none"
               /\ context[r] = "undefined"
               /\ page[r] = "undefined"
               /\ child[r] = "none"
               /\ steps[r] = <<>>

\* C9: a /render/png request naming a template without index.html is answered
\* 404 (once, nothing else), the message carries the resolved path, and the
\* existence check is the only renderer step: the engine handle is not
\* touched and no context or page is created.
C9_MissingTemplateIs404 ==
    /\ [](\A r \in Requests :
            (endpoint[r] = "png" /\ body[r].template \notin ExistingTemplates \cup {""})
                => /\ response[r] = <<Resp(404, "RENDER_FAILED",
                         <<"Template not found at ", "/data", "templates",
                           body[r].template, "index.html">>)>>
                   /\ steps[r] = <<"existsSync">>
                   /\ context[r] = "undefined"
                   /\ page[r] = "undefined")
    /\ [][\A r \in Requests :
            (endpoint'[r] = "png" /\ response[r] = <<>> /\ response'[r] # <<>>
                /\ response'[r][1].status = 404)
                => UNCHANGED browserVars]_vars

C9_Witness ==
    \E r \in Requests :
        /\ endpoint[r] = "png"
        /\ body[r].template = "missing"
        /\ response[r] # <<>>
        /\ response[r][1].status = 404
        /\ browserPromise = "fulfilled"

\* C10: a TemplateNotFound failure of the Page Renderer is answered 404 by
\* whichever endpoint invoked it.
C10_TemplateNotFoundIs404 ==
    \A r \in Requests :
        ( /\ endpoint[r] # "none"
          /\ body[r].template \notin ExistingTemplates \cup {""}
          /\ (endpoint[r] = "video" => startsWithFile(body[r].bgVideo))
          /\ response[r] # <<>> )
            => response[r][1].status = 404

\* The steps of a /render/video request in the order of its code.
VideoOrder ==
    <<"existsSync", "getBrowser", "newContext", "newPage", "addInitScript",
      "goto", "addStyleTag", "evaluate", "waitForFunction", "screenshot",
      "pageClose", "contextClose", "writeFileSync", "spawn", "readFileSync",
      "send">>
IsPrefix(s, t) == Len(s) <= Len(t) /\ \A i \in 1..Len(s) : s[i] = t[i]
HasStep(r, n) == \E i \in DOMAIN steps[r] : steps[r][i] = n

\* The lifecycle phase of a /render/video request.  VALIDATING lasts no longer
\* than the handler's first segment, so it is never the phase of a state.
Phase(r) ==
    CASE pc[r] \in {"idle", "threw"} -> "NONE"
      [] pc[r] = "run" -> "COMPOSING"
      [] pc[r] \in {"finally", "done"} ->
            IF response[r] # <<>> /\ response[r][1].status = 200
            THEN "DONE" ELSE "FAILED"
      [] OTHER -> "RENDERING_OVERLAY"
PhaseOrder ==
    {<<"NONE", "RENDERING_OVERLAY">>, <<"NONE", "FAILED">>,
     <<"RENDERING_OVERLAY", "COMPOSING">>, <<"RENDERING_OVERLAY", "FAILED">>,
     <<"COMPOSING", "DONE">>, <<"COMPOSING", "FAILED">>,
     <<"DONE", "NONE">>, <<"FAILED", "NONE">>}

\* C11: a /render/video request whose temporary directory was made moves
\* through its phases only in the order validation, overlay rendering,
\* composition, done, with failure reachable from each.  Its steps are a prefix
\* of the code's order, so the renderer and the process runner are each
\* invoked at most once, the renderer only for a validated body, ffmpeg only
\* after the overlay was rendered and written; the output is read and 200 sent
\* only after ffmpeg closed with status 0 and run resolved; the cleanup runs
\* after the response, whether the request succeeded or failed.
C11_PhasesInOrder ==
    /\ [](\A r \in Requests : endpoint[r] = "video" =>
            /\ IsPrefix(steps[r], VideoOrder)
            /\ steps[r] # <<>> =>
                  body[r].template # "" /\ startsWithFile(body[r].bgVideo)
            /\ Len(delivered[r]) <= 1
            /\ (HasStep(r, "readFileSync")
                  \/ (response[r] # <<>> /\ response[r][1].status = 200)) =>
                  /\ exitCode[r] = "0"
                  /\ delivered[r] = <<Resolved(stdout[r], stderr[r])>>
            /\ pc[r] = "done" => cleanup[r] # "none")
    /\ [][\A r \in Requests : endpoint'[r] = "video" =>
            /\ Phase(r)' # Phase(r) => <<Phase(r), Phase(r)'>> \in PhaseOrder
            /\ cleanup'[r] # cleanup[r] /\ cleanup'[r] # "none" =>
                  Phase(r) \in {"DONE", "FAILED"} /\ Len(response[r]) = 1]_vars

C11_Witness ==
    \E r \in Requests :
        /\ endpoint[r] = "video"
        /\ pc[r] = "done"
        /\ steps[r] = VideoOrder
        /\ Phase(r) = "DONE"
        /\ cleanup[r] = "ok"

\* C12: however the getBrowser calls of concurrent requests interleave, also
\* while the first launch is pending, chromium.launch is called at most once;
\* every request that got past await getBrowser() got the engine of that one
\* launch; once set, the handle is never cleared and a launched engine stays
\* launched (no step of any request closes or replaces it).
C12_SingleLaunch ==
    /\ [](/\ launches <= 1
          /\ browserPromise = "null" <=> launches = 0
          /\ \A r \in Requests :
                (pc[r] = "newContext" \/ HasStep(r, "newContext"))
                    => browserPromise = "fulfilled")
    /\ [][/\ browserPromise # "null" =>
                browserPromise' # "null" /\ launches' = launches
          /\ browserPromise \in {"fulfilled", "rejected"} =>
                browserPromise' = browserPromise]_vars

C12_Witness ==
    /\ browserPromise = "pending"
    /\ launches = 1
    /\ \E r, q \in Requests :
          r # q /\ pc[r] = "getBrowser" /\ pc[q] = "getBrowser"

\* The steps of a /render/png request in the order of its code (hideBg false).
PngOrder ==
    <<"existsSync", "getBrowser", "newContext", "newPage", "addInitScript",
      "goto", "evaluate", "waitForFunction", "screenshot", "pageClose",
      "contextClose", "send">>
WaitFailed(r) ==
    /\ response[r] # <<>>
    /\ response[r][1].message = <<"waitForFunction", " failed">>

\* C13: in every render the init script is registered before the navigation,
\* the background-hiding style (video overlay only) and the font wait come
\* after it, and frame.screenshot is called only when waitForFunction has
\* seen the ready flag true; when waitForFunction gives up on a flag that is
\* not true the request fails with 500 and no screenshot is taken, then or
\* later.
C13_RendererOrder ==
    /\ [](\A r \in Requests : endpoint[r] # "none" =>
            /\ IsPrefix(steps[r], IF endpoint[r] = "video" THEN VideoOrder
                                                           ELSE PngOrder)
            /\ (pc[r] = "screenshot" \/ HasStep(r, "screenshot")) =>
                  ready[r] /\ HasStep(r, "waitForFunction")
            /\ WaitFailed(r) =>
                  /\ response[r][1].status = 500
                  /\ ~HasStep(r, "screenshot")
                  /\ pc[r] \in {"finally", "done"})
    /\ [][\A r \in Requests :
            pc[r] = "waitForFunction" /\ pc'[r] # "waitForFunction" =>
                IF ready[r] THEN pc'[r] = "screenshot" /\ response'[r] = <<>>
                            ELSE WaitFailed(r)']_vars

C13_Witness ==
    \E r \in Requests :
        /\ endpoint[r] = "video"
        /\ HasStep(r, "addStyleTag")
        /\ HasStep(r, "screenshot")
        /\ ready[r]

C13_FailureReached == \E r \in Requests : WaitFailed(r) /\ pc[r] = "done"

\* The child of request r closed before its timer fired and without a spawn
\* error.
ClosedFirst(r) == events[r] # <<>> /\ events[r][1] = "close"

\* C14: when the child closes before the timer fires and without a spawn
\* error, exit status 0 makes run succeed with exactly the stdout and stderr
\* accumulated until then, and any other status makes it fail with an error
\* that carries the exit code and the accumulated stderr, or the accumulated
\* stdout when stderr is empty; that error is what the caller receives.
C14_CloseSettlesByExitCode ==
    \A r \in Requests : ClosedFirst(r) =>
        /\ exitCode[r] = "0" =>
              /\ promise[r].state = "fulfilled"
              /\ promise[r].out = stdout[r]
              /\ promise[r].err = stderr[r]
        /\ exitCode[r] # "0" =>
              /\ promise[r].state = "rejected"
              /\ promise[r].kind = "exit"
              /\ promise[r].code = exitCode[r]
              /\ promise[r].text = IF stderr[r] # <<>> THEN stderr[r]
                                                       ELSE stdout[r]
              /\ pc[r] \in {"finally", "done"} =>
                    response[r] = <<Resp(500, "RENDER_VIDEO_FAILED",
                        <<"ffmpeg", " failed (code ", exitCode[r], "). ">>
                            \o promise[r].text)>>

C14_Witness ==
    \E r \in Requests :
        /\ ClosedFirst(r)
        /\ exitCode[r] = "1"
        /\ stdout[r] # <<>>
        /\ stderr[r] # <<>>
        /\ pc[r] = "done"
        /\ response[r][1].message =
              <<"ffmpeg", " failed (code ", "1", "). ">> \o stderr[r]

C14_SuccessReached ==
    \E r \in Requests :
        /\ ClosedFirst(r)
        /\ exitCode[r] = "0"
        /\ promise[r] = Resolved(<<"out">>, <<"err">>)

\* The child of request r emitted 'error' before its timer fired.
ErroredFirst(r) == events[r] # <<>> /\ events[r][1] = "error"

\* C15: when the child emits 'error' before the timer fires, run fails with
\* that error; the timer is cancelled in the error handler, so it never fires
\* and never kills; a 'close' that follows does not replace the outcome, and
\* the caller receives the spawn error and nothing else.
C15_SpawnErrorWins ==
    /\ [](\A r \in Requests : ErroredFirst(r) =>
            /\ promise[r].state = "rejected"
            /\ promise[r].kind = "error"
            /\ timer[r].state = "cleared"
            /\ kills[r] = 0
            /\ ~HasEvent(r, "timer")
            /\ \A i \in DOMAIN delivered[r] : delivered[r][i].kind = "error"
            /\ pc[r] \in {"finally", "done"} =>
                  response[r] = <<Resp(500, "RENDER_VIDEO_FAILED",
                                       <<"spawn ffmpeg failed">>)>>)
    /\ [][\A r \in Requests :
            events[r] = <<>> /\ events'[r] = <<"error">> =>
                timer[r].state = "armed" /\ timer'[r].state = "cleared"]_vars

C15_Witness ==
    \E r \in Requests :
        /\ events[r] = <<"error", "close">>
        /\ exitCode[r] = "-2"
        /\ promise[r] = SpawnError
        /\ pc[r] = "done"

\* What the called normalizer parses out of its argument.
Parsed(call) ==
    IF call.fn = "normalizeInt" THEN parseInt(call.v) ELSE ToNumber(call.v)
FinitePositive(n) == IsFinite(n) /\ n.m > 0

FilesOf(q) == {f \in files : f.owner = q}
HasDir(q) == endpoint[q] = "video" /\ tmpDir[q] = "exists"

\* C17: video requests in flight together each have a temporary directory of
\* their own, hence overlay and output paths of their own, whatever their
\* identifiers; every file lies in the directory of the request that wrote it
\* and no path holds the file of two requests; and a step changes a request's
\* directory or files (writing, overwriting, deleting) only when it is a step
\* of that request's handler or of its own ffmpeg process.
C17_OwnTemporaryFiles ==
    /\ [](/\ \A r, q \in Requests : r # q /\ HasDir(r) /\ HasDir(q) =>
                /\ tmpName[r] # tmpName[q]
                /\ overlayPath(r) # overlayPath(q)
                /\ outPath(r) # outPath(q)
                /\ overlayPath(r) # outPath(q)
          /\ \A f \in files :
                /\ HasDir(f.owner)
                /\ f.path \in {overlayPath(f.owner), outPath(f.owner)}
          /\ \A f, g \in files : f.path = g.path => f.owner = g.owner)
    /\ [][\A q \in Requests :
            (FilesOf(q)' # FilesOf(q) \/ tmpDir'[q] # tmpDir[q]) =>
                pc'[q] # pc[q] \/ child'[q] # child[q]]_vars

C17_Witness ==
    \E r, q \in Requests :
        /\ r # q
        /\ fileId[r] = fileId[q]
        /\ FilesOf(r) = {File(overlayPath(r), r), File(outPath(r), r)}
        /\ FilesOf(q) = {File(overlayPath(q), q)}
        /\ cleanup[q] = "none"

\* The argument that follows the (only) occurrence of a flag.
After(args, flag) ==
    args[(CHOOSE i \in DOMAIN args : args[i] = Lit(flag)) + 1]
Occurrences(args, flag) ==
    Cardinality({i \in DOMAIN args : args[i] = Lit(flag)})
\* -map 0:a? occurs at position i.
MapsAudio(args, i) ==
    i + 1 \in DOMAIN args /\ args[i] = Lit("-map") /\ args[i + 1] = Lit("0:a?")

\* An option that is missing, a number that is zero, negative or not finite,
\* or a string without a digit.
Missing(v) == v.type \in {"undefined", "null"}
NotPositive(v) == v.type = "number" /\ ~FinitePositive(v.n)
NonNumeric(v) == v.type = "string" /\ \A i \in DOMAIN v.s : ~IsDigit(v.s[i])
Invalid(v) == Missing(v) \/ NotPositive(v) \/ NonNumeric(v)

HandlerOver(r) == pc[r] \in {"done", "threw"}

\* C19: a request never gets two responses, and once its handler invocation
\* is over it has got exactly one.
C19_ExactlyOneResponse ==
    \A r \in Requests :
        /\ Len(response[r]) <= 1
        /\ HandlerOver(r) => Len(response[r]) = 1

\* The response of a handler whose await getBrowser() rejected.
LaunchFailed(r) ==
    Resp(500, IF endpoint[r] = "png" THEN "RENDER_FAILED"
                                     ELSE "RENDER_VIDEO_FAILED",
         <<"launch", " failed">>)

\* C20: browserPromise is assigned once at most and never cleared; when that
\* one launch has failed, the handle stays rejected for good: a request that
\* arrives afterwards with an existing template calls getBrowser without a
\* new launch being started, and every request with an existing template
\* that resumes from await getBrowser() is answered 500 with that launch
\* failure.
C20_FailedLaunchIsPermanent ==
    /\ [](/\ launches <= 1
          /\ \A r \in Requests :
                ( /\ browserPromise = "rejected"
                  /\ body[r].template \in ExistingTemplates
                  /\ HasStep(r, "getBrowser")
                  /\ pc[r] # "getBrowser" )
                    => /\ response[r] = <<LaunchFailed(r)>>
                       /\ steps[r] = <<"existsSync", "getBrowser">>)
    /\ [][/\ browserPromise # "null" =>
                browserPromise' # "null" /\ launches' = launches
          /\ browserPromise = "rejected" => browserPromise' = "rejected"
          /\ \A r \in Requests :
                (browserPromise = "rejected" /\ pc[r] = "idle"
                    /\ pc'[r] # "idle"
                    /\ body'[r].template \in ExistingTemplates
                    /\ steps'[r] # <<>>)
                    => pc'[r] = "getBrowser" /\ launches' = launches]_vars

C20_Witness ==
    \E r \in Requests :
        /\ browserPromise = "rejected"
        /\ launches = 1
        /\ endpoint[r] = "video"
        /\ body[r].template \in ExistingTemplates
        /\ pc[r] = "done"
        /\ response[r] = <<LaunchFailed(r)>>

====
